---- MODULE Spec2Model ----
(***************************************************************************)
(* Authentication and account lockout of secure-flask-api: the User        *)
(* lockout methods (app/models.py), session login (app/routes/auth.py)     *)
(* and API-key issuance (app/routes/api.py).                               *)
(*                                                                         *)
(* Time is counted in minutes.  A request handler runs at one instant      *)
(* `now` of the clock (its calls of datetime.utcnow() fall in the same     *)
(* minute) and is one atomic step in Spec; SpecConc splits session login   *)
(* at its database reads and commits.                                      *)
(***************************************************************************)
EXTENDS Integers, Sequences, FiniteSets, TLC

VARIABLES
    users,      \* table `users`: id -> row
    api_keys,   \* table `api_keys`: sequence of rows in insertion order
    session,    \* per browser: the user id Flask-Login keeps in the cookie
    now,        \* datetime.utcnow(), in minutes
    resp,       \* the last request (or method call) and what it returned
    pc,         \* SpecConc: position of each in-flight login request
    loaded,     \* SpecConc: the User object each request's ORM session holds
    issued      \* the values secrets.token_urlsafe has returned so far

vars == <<users, api_keys, session, now, resp, pc, loaded, issued>>

----------------------------------------------------------------------------
(* Bounds of the model *)

MaxTime == 45
ClockStep == 15
MaxKeys == 2
MaxFailed == 7
MaxUsers == 2

(* Program constants *)

LOCKOUT_THRESHOLD == 5
LOCKOUT_MINUTES == 30

(* A nullable DateTime column holding NULL, and the anonymous session *)
NoTime == -1
NoUser == 0

ADMIN_ID == 1

Clients == {"browser"}
Procs == {"r1", "r2"}

----------------------------------------------------------------------------
(* Strings are sequences of characters; str.lower() maps each character. *)

LowerChar(ch) == IF ch = "A" THEN "a" ELSE ch

Lower(s) == [i \in DOMAIN s |-> LowerChar(s[i])]

ADMIN_USERNAME == <<"a">>
ADMIN_EMAIL == <<"a", "@">>
ADMIN_PASSWORD == "changeme123"

\* identifiers a login request may name: the admin's username, its email as
\* stored and in upper case, and a name no user has
LoginNames == {<<"a">>, <<"a", "@">>, <<"A", "@">>, <<"n">>}
Passwords == {"changeme123", "wrong"}

----------------------------------------------------------------------------
(* app/models.py: User *)

\* bcrypt: only the plaintext that was hashed verifies
generate_password_hash(password) == <<"bcrypt", password>>

check_password(user, password) == user.password_hash = <<"bcrypt", password>>

\* is_account_locked with the comparison of line 58 turned round
is_account_locked_reversed(user, t) ==
    IF user.account_locked_until # NoTime
    THEN IF t > user.account_locked_until
         THEN [ret |-> TRUE, user |-> user]
         ELSE [ret |-> FALSE,
               user |-> [user EXCEPT !.account_locked_until = NoTime,
                                     !.failed_login_attempts = 0]]
    ELSE [ret |-> FALSE, user |-> user]

\* is_account_locked whose lazy unlock clears the timestamp and leaves the
\* counter (without line 62)
is_account_locked_keeps_count(user, t) ==
    IF user.account_locked_until # NoTime
    THEN IF t < user.account_locked_until
         THEN [ret |-> TRUE, user |-> user]
         ELSE [ret |-> FALSE,
               user |-> [user EXCEPT !.account_locked_until = NoTime]]
    ELSE [ret |-> FALSE, user |-> user]

\* is_account_locked with <= at line 58: still locked at the instant of expiry
is_account_locked_inclusive(user, t) ==
    IF user.account_locked_until # NoTime
    THEN IF t <= user.account_locked_until
         THEN [ret |-> TRUE, user |-> user]
         ELSE [ret |-> FALSE,
               user |-> [user EXCEPT !.account_locked_until = NoTime,
                                     !.failed_login_attempts = 0]]
    ELSE [ret |-> FALSE, user |-> user]

\* User.is_account_locked at time t: the returned value and the row it leaves
is_account_locked(user, t) ==
    IF user.account_locked_until # NoTime
    THEN IF t < user.account_locked_until
         THEN [ret |-> TRUE, user |-> user]
         ELSE [ret |-> FALSE,
               user |-> [user EXCEPT !.account_locked_until = NoTime,
                                     !.failed_login_attempts = 0]]
    ELSE [ret |-> FALSE, user |-> user]

\* record_failed_login with > for >= at line 73: the lock comes one failure late
record_failed_login_late(user, t) ==
    LET n == user.failed_login_attempts + 1
    IN  [user EXCEPT !.failed_login_attempts = n,
                     !.last_failed_login = t,
                     !.account_locked_until =
                         IF n > LOCKOUT_THRESHOLD THEN t + LOCKOUT_MINUTES
                         ELSE user.account_locked_until]

record_failed_login(user, t) ==
    LET n == user.failed_login_attempts + 1
    IN  [user EXCEPT !.failed_login_attempts = n,
                     !.last_failed_login = t,
                     !.account_locked_until =
                         IF n >= LOCKOUT_THRESHOLD THEN t + LOCKOUT_MINUTES
                         ELSE user.account_locked_until]

\* reset_failed_logins without line 82
reset_failed_logins_keeps_last_failed(user, t) ==
    [user EXCEPT !.failed_login_attempts = 0,
                 !.account_locked_until = NoTime,
                 !.last_login = t]

reset_failed_logins(user, t) ==
    [user EXCEPT !.failed_login_attempts = 0,
                 !.last_failed_login = NoTime,
                 !.account_locked_until = NoTime,
                 !.last_login = t]

\* a row as the ORM inserts it: the column defaults of lines 24-28
NewUser(username, email, password, admin) ==
    [username |-> username,
     email |-> email,
     password_hash |-> generate_password_hash(password),
     is_active |-> TRUE,
     is_admin |-> admin,
     failed_login_attempts |-> 0,
     last_failed_login |-> NoTime,
     account_locked_until |-> NoTime,
     last_login |-> NoTime]

\* User.to_dict of the row stored under `id`
User_to_dict(id, user, include_email) ==
    IF include_email
    THEN [id |-> id, username |-> user.username, is_admin |-> user.is_admin,
          last_login |-> user.last_login, email |-> user.email]
    ELSE [id |-> id, username |-> user.username, is_admin |-> user.is_admin,
          last_login |-> user.last_login]

----------------------------------------------------------------------------
(* Queries and Flask-Login *)

Min(S) == CHOOSE x \in S : \A y \in S : x <= y

\* User.query.filter((username == name) | (email == name.lower())).first()
FindUser(name) ==
    LET hits == {id \in DOMAIN users :
                    \/ users[id].username = name
                    \/ users[id].email = Lower(name)}
    IN  IF hits = {} THEN NoUser ELSE Min(hits)

\* current_user.is_authenticated: the cookie's user is loaded by load_user and
\* UserMixin.is_authenticated is the user's is_active
IsAuthenticated(c) ==
    /\ session[c] # NoUser
    /\ session[c] \in DOMAIN users
    /\ users[session[c]].is_active

Response(op, c, name, password, status, body, key) ==
    [op |-> op, client |-> c, name |-> name, password |-> password,
     status |-> status, body |-> body, api_key |-> key, data |-> <<>>,
     arg |-> 0]

\* a response to a request that carried `arg` in its URL or X-API-Key header,
\* with the list of dictionaries `data` in its JSON body
Reply(r, arg, data) == [r EXCEPT !.arg = arg, !.data = data]

\* what a method of User returned when called on the row of user `id`
Returned(method, id, value) ==
    [op |-> method, client |-> "-", name |-> <<>>, password |-> "-",
     status |-> id, body |-> value, api_key |-> {}, data |-> <<>>,
     arg |-> 0]

NoResponse == Response("none", "-", <<>>, "-", 0, "-", {})

\* a worker that is serving no request
NoRequest ==
    [client |-> "-", name |-> <<>>, password |-> "-", id |-> NoUser,
     user |-> <<>>, expired |-> FALSE]

----------------------------------------------------------------------------
(* create_app: the tables are created and the default admin inserted *)

Init ==
    /\ users = [id \in {ADMIN_ID} |->
                   NewUser(ADMIN_USERNAME, ADMIN_EMAIL, ADMIN_PASSWORD, TRUE)]
    /\ api_keys = <<>>
    /\ session = [c \in Clients |-> NoUser]
    /\ now = 0
    /\ resp = NoResponse
    /\ pc = [p \in Procs |-> "idle"]
    /\ loaded = [p \in Procs |-> NoRequest]
    /\ issued = {}

Tick ==
    /\ now + ClockStep <= MaxTime
    /\ now' = now + ClockStep
    /\ UNCHANGED <<users, api_keys, session, resp, pc, loaded, issued>>

----------------------------------------------------------------------------
(* app/routes/auth.py *)

MSG_LOCKED == "Your account is temporarily locked due to multiple failed login attempts. Please try again later."
MSG_INVALID == "Invalid username/email or password."
MSG_DEACTIVATED == "Your account has been deactivated. Please contact support."
REDIRECT == "redirect"
UNAUTHORIZED == "redirect to auth.login"

\* flask_login.login_user: refuses a user that is not active
login_user(c, id) ==
    IF users[id].is_active THEN [session EXCEPT ![c] = id] ELSE session

\* login() with a message of its own for a name that matches no user
login_tells_unknown_user(c, name, password) ==
    LET id == FindUser(name)
        lk == is_account_locked(users[id], now)
        Out(status, body, u, s) ==
            [resp |-> Response("login", c, name, password, status, body, {}),
             users |-> u, session |-> s]
    IN  IF IsAuthenticated(c)
        THEN Out(302, REDIRECT, users, session)
        ELSE IF id = NoUser
        THEN Out(200, "No account with that username or email.",
                 users, session)
        ELSE IF lk.ret
        THEN Out(200, MSG_LOCKED, users, session)
        ELSE IF check_password(lk.user, password)
        THEN IF ~lk.user.is_active
             THEN Out(200, MSG_DEACTIVATED,
                      [users EXCEPT ![id] = lk.user], session)
             ELSE Out(302, REDIRECT,
                      [users EXCEPT ![id] = reset_failed_logins(lk.user, now)],
                      login_user(c, id))
        ELSE Out(200, MSG_INVALID,
                 [users EXCEPT ![id] = record_failed_login(lk.user, now)],
                 session)

\* login() that looks at the lock again after recording a failure, and
\* flashes the locked message on the attempt that locks the account
login_flashes_lock_at_once(c, name, password) ==
    LET id == FindUser(name)
        lk == is_account_locked(users[id], now)
        failed == record_failed_login(lk.user, now)
        Out(status, body, u, s) ==
            [resp |-> Response("login", c, name, password, status, body, {}),
             users |-> u, session |-> s]
    IN  IF IsAuthenticated(c)
        THEN Out(302, REDIRECT, users, session)
        ELSE IF id # NoUser /\ lk.ret
        THEN Out(200, MSG_LOCKED, users, session)
        ELSE IF id # NoUser /\ check_password(lk.user, password)
        THEN IF ~lk.user.is_active
             THEN Out(200, MSG_DEACTIVATED,
                      [users EXCEPT ![id] = lk.user], session)
             ELSE Out(302, REDIRECT,
                      [users EXCEPT ![id] = reset_failed_logins(lk.user, now)],
                      login_user(c, id))
        ELSE IF id # NoUser
        THEN Out(200,
                 IF is_account_locked(failed, now).ret
                 THEN MSG_LOCKED ELSE MSG_INVALID,
                 [users EXCEPT ![id] = failed], session)
        ELSE Out(200, MSG_INVALID, users, session)

\* login() on a valid form: the response, and the tables and cookie it leaves
login(c, name, password) ==
    LET id == FindUser(name)
        lk == is_account_locked(users[id], now)
        Out(status, body, u, s) ==
            [resp |-> Response("login", c, name, password, status, body, {}),
             users |-> u, session |-> s]
    IN  IF IsAuthenticated(c)
        THEN Out(302, REDIRECT, users, session)
        ELSE IF id # NoUser /\ lk.ret
        THEN Out(200, MSG_LOCKED, users, session)
        ELSE IF id # NoUser /\ check_password(lk.user, password)
        THEN IF ~lk.user.is_active
             THEN Out(200, MSG_DEACTIVATED,
                      [users EXCEPT ![id] = lk.user], session)
             ELSE Out(302, REDIRECT,
                      [users EXCEPT ![id] = reset_failed_logins(lk.user, now)],
                      login_user(c, id))
        ELSE Out(200, MSG_INVALID,
                 IF id # NoUser
                 THEN [users EXCEPT ![id] = record_failed_login(lk.user, now)]
                 ELSE users,
                 session)

\* POST /auth/login
Login(c, name, password) ==
    /\ resp' = login(c, name, password).resp
    /\ users' = login(c, name, password).users
    /\ session' = login(c, name, password).session
    /\ UNCHANGED <<api_keys, now, pc, loaded, issued>>

\* INSERT INTO users with the next free id; the UNIQUE constraints of
\* username and email (models.py 19-20) reject a row that repeats either
NextUserId ==
    1 + CHOOSE m \in DOMAIN users \cup {0} : \A o \in DOMAIN users : o <= m

\* INSERT INTO a users table that has no UNIQUE constraints
insert_user_unconstrained(row) ==
    [ok |-> TRUE,
     users |-> [id \in DOMAIN users \cup {NextUserId} |->
                   IF id \in DOMAIN users THEN users[id] ELSE row]]

insert_user(row) ==
    IF \E o \in DOMAIN users : \/ users[o].username = row.username
                               \/ users[o].email = row.email
    THEN [ok |-> FALSE, users |-> users]
    ELSE [ok |-> TRUE,
          users |-> [id \in DOMAIN users \cup {NextUserId} |->
                        IF id \in DOMAIN users THEN users[id] ELSE row]]

\* RegistrationForm.validate_username and validate_email
validate_registration(username, email) ==
    /\ \A o \in DOMAIN users : users[o].username # username
    /\ \A o \in DOMAIN users : users[o].email # Lower(email)

MSG_REGISTERED == "Registration successful! You can now log in."
MSG_REGISTER_ERROR == "An error occurred during registration. Please try again."
MSG_FORM_ERRORS == "form errors"

\* POST /auth/register; a request that stores a user is served while the
\* table has room for it
Register(c, username, email, password) ==
    LET R(status, body) ==
            Response("register", c, username, password, status, body, {})
        ins == insert_user(NewUser(username, Lower(email), password, FALSE))
    IN  /\ IF IsAuthenticated(c)
           THEN /\ resp' = R(302, REDIRECT)
                /\ UNCHANGED users
           ELSE IF ~validate_registration(username, email)
           THEN /\ resp' = R(200, MSG_FORM_ERRORS)
                /\ UNCHANGED users
           ELSE IF ~ins.ok
           THEN /\ resp' = R(200, MSG_REGISTER_ERROR)
                /\ UNCHANGED users
           ELSE /\ Cardinality(DOMAIN users) < MaxUsers
                /\ resp' = R(302, MSG_REGISTERED)
                /\ users' = ins.users
        /\ UNCHANGED <<api_keys, session, now, pc, loaded, issued>>

MSG_PROFILE_UPDATED == "Your profile has been updated successfully."

\* POST /auth/profile with a form whose email field is `email`
Profile(c, email) ==
    LET R(status, body) ==
            Response("profile", c, email, "-", status, body, {})
        id == session[c]
        others == DOMAIN users \ {id}
        \* ProfileUpdateForm.validate_email
        valid == \/ Lower(email) = Lower(users[id].email)
                 \/ \A o \in DOMAIN users : users[o].email # Lower(email)
        \* the UNIQUE constraint on users.email at the commit
        unique == \A o \in others : users[o].email # Lower(email)
    IN  /\ IF ~IsAuthenticated(c)
           THEN /\ resp' = R(302, UNAUTHORIZED)
                /\ UNCHANGED users
           ELSE IF ~valid
           THEN /\ resp' = R(200, MSG_FORM_ERRORS)
                /\ UNCHANGED users
           ELSE IF ~unique
           THEN /\ resp' = R(500, "Internal server error")
                /\ UNCHANGED users
           ELSE /\ resp' = R(302, MSG_PROFILE_UPDATED)
                /\ users' = [users EXCEPT ![id].email = Lower(email)]
        /\ UNCHANGED <<api_keys, session, now, pc, loaded, issued>>

MSG_PASSWORD_INCORRECT == "Current password is incorrect."
MSG_PASSWORD_SAME == "New password must be different from current password."
MSG_PASSWORD_CHANGED == "Your password has been changed successfully."

\* set_password that also clears the lockout fields
set_password_clears_lock(user, password) ==
    [user EXCEPT !.password_hash = generate_password_hash(password),
                 !.failed_login_attempts = 0,
                 !.account_locked_until = NoTime]

\* User.set_password
set_password(user, password) ==
    [user EXCEPT !.password_hash = generate_password_hash(password)]

\* POST /auth/change-password on a valid form
ChangePassword(c, current, new) ==
    LET R(status, body) ==
            Response("change_password", c, <<>>, current, status, body, {})
        id == session[c]
    IN  /\ IF ~IsAuthenticated(c)
           THEN /\ resp' = R(302, UNAUTHORIZED)
                /\ UNCHANGED users
           ELSE IF ~check_password(users[id], current)
           THEN /\ resp' = R(200, MSG_PASSWORD_INCORRECT)
                /\ UNCHANGED users
           ELSE IF check_password(users[id], new)
           THEN /\ resp' = R(200, MSG_PASSWORD_SAME)
                /\ UNCHANGED users
           ELSE /\ resp' = R(302, MSG_PASSWORD_CHANGED)
                /\ users' = [users EXCEPT ![id] = set_password(@, new)]
        /\ UNCHANGED <<api_keys, session, now, pc, loaded, issued>>

\* GET /auth/logout
Logout(c) ==
    /\ IF IsAuthenticated(c)
       THEN /\ session' = [session EXCEPT ![c] = NoUser]
            /\ resp' = Response("logout", c, <<>>, "-", 302, REDIRECT, {})
       ELSE /\ resp' = Response("logout", c, <<>>, "-", 302, UNAUTHORIZED, {})
            /\ UNCHANGED session
    /\ UNCHANGED <<users, api_keys, now, pc, loaded, issued>>

----------------------------------------------------------------------------
(* app/routes/api.py *)

\* werkzeug generate_password_hash / check_password_hash of a raw key
key_hash_of(raw) == <<"pbkdf2", raw>>

\* secrets.token_urlsafe(32): a value it has not returned before
RawKeys == 1..MaxKeys

FreshKeys == RawKeys \ issued

NextKeyId ==
    IF api_keys = <<>> THEN 1
    ELSE 1 + CHOOSE m \in {api_keys[i].id : i \in DOMAIN api_keys} :
                 \A i \in DOMAIN api_keys : api_keys[i].id <= m

NewApiKey(raw, name, user_id) ==
    [id |-> NextKeyId,
     key_hash |-> key_hash_of(raw),
     name |-> name,
     user_id |-> user_id,
     is_active |-> TRUE,
     last_used |-> NoTime,
     expires_at |-> NoTime]

\* to_dict that serializes every column of the row
ApiKey_to_dict_all_columns(key) == key

\* ApiKey.to_dict
ApiKey_to_dict(key) ==
    [id |-> key.id, name |-> key.name, is_active |-> key.is_active,
     expires_at |-> key.expires_at, last_used |-> key.last_used]

Devices == {"Unknown"}

\* f"API Key - {device}"
key_name(device) == <<"API Key - ", device>>

\* api_login() that applies reset_failed_logins before it looks at is_active
api_login_resets_first(name, password, device, raw) ==
    LET id == FindUser(name)
        lk == is_account_locked(users[id], now)
        Out(status, body, key, u, k) ==
            [resp |-> Response("api_login", "-", name, password,
                               status, body, key),
             users |-> u, api_keys |-> k]
    IN  IF id = NoUser \/ ~check_password(users[id], password)
        THEN Out(401, "Authentication failed", {}, users, api_keys)
        ELSE IF lk.ret
        THEN Out(403, "Account locked", {}, users, api_keys)
        ELSE IF ~lk.user.is_active
        THEN Out(403, "Account deactivated", {},
                 [users EXCEPT ![id] = reset_failed_logins(lk.user, now)],
                 api_keys)
        ELSE [Out(200, "Authentication successful", {raw},
                  [users EXCEPT ![id] = reset_failed_logins(lk.user, now)],
                  Append(api_keys, NewApiKey(raw, key_name(device), id)))
              EXCEPT !.resp.data =
                  <<User_to_dict(id, reset_failed_logins(lk.user, now),
                                 FALSE)>>]

\* api_login() on a body that has username and password, with `raw` the
\* value secrets.token_urlsafe returns: the response and the tables it leaves
api_login(name, password, device, raw) ==
    LET id == FindUser(name)
        lk == is_account_locked(users[id], now)
        Out(status, body, key, u, k) ==
            [resp |-> Response("api_login", "-", name, password,
                               status, body, key),
             users |-> u, api_keys |-> k]
    IN  IF id = NoUser \/ ~check_password(users[id], password)
        THEN Out(401, "Authentication failed", {}, users, api_keys)
        ELSE IF lk.ret
        THEN Out(403, "Account locked", {}, users, api_keys)
        ELSE IF ~lk.user.is_active
        THEN Out(403, "Account deactivated", {},
                 [users EXCEPT ![id] = lk.user], api_keys)
        ELSE [Out(200, "Authentication successful", {raw},
                  [users EXCEPT ![id] = reset_failed_logins(lk.user, now)],
                  Append(api_keys, NewApiKey(raw, key_name(device), id)))
              EXCEPT !.resp.data =
                  <<User_to_dict(id, reset_failed_logins(lk.user, now),
                                 FALSE)>>]

\* POST /api/auth/login; a request that would store a key is served while
\* the table has room for it
ApiLogin(name, password, device, raw) ==
    /\ api_login(name, password, device, raw).api_keys # api_keys
          => /\ raw \in FreshKeys
             /\ Len(api_keys) < MaxKeys
    /\ resp' = api_login(name, password, device, raw).resp
    /\ users' = api_login(name, password, device, raw).users
    /\ api_keys' = api_login(name, password, device, raw).api_keys
    /\ issued' = IF api_login(name, password, device, raw).api_keys # api_keys
                 THEN issued \cup {raw} ELSE issued
    /\ UNCHANGED <<session, now, pc, loaded>>

\* the optional fields of the JSON body of PUT /api/users/<id>: a set holds
\* the value of a field that is present and is empty for one that is absent
UpdateBodies ==
    [is_active : {{}, {TRUE}, {FALSE}},
     is_admin : {{}},
     email : {{}}]

Value(field) == CHOOSE v \in field : TRUE

\* update_user that commits each flag as it sets it, before the email
UpdateUser_commits_flags(c, user_id, data) ==
    LET R(status, body) ==
            Response("update_user", c, <<>>, "-", status, body, {})
        user == users[user_id]
        flags == [user EXCEPT
                    !.is_active = IF data.is_active # {}
                                  THEN Value(data.is_active) ELSE @,
                    !.is_admin = IF data.is_admin # {}
                                 THEN Value(data.is_admin) ELSE @]
        upd == [flags EXCEPT
                  !.email = IF data.email # {}
                            THEN Lower(Value(data.email)) ELSE @]
        unique == \A o \in DOMAIN users \ {user_id} :
                      users[o].email # upd.email
    IN  /\ IF ~IsAuthenticated(c)
           THEN /\ resp' = R(302, UNAUTHORIZED)
                /\ UNCHANGED users
           ELSE IF ~users[session[c]].is_admin
           THEN /\ resp' = R(403, "Admin access required")
                /\ UNCHANGED users
           ELSE IF user_id \notin DOMAIN users
           THEN /\ resp' = R(404, "Not found")
                /\ UNCHANGED users
           ELSE IF ~unique
           THEN /\ resp' = R(500, "Internal server error")
                /\ users' = [users EXCEPT ![user_id] = flags]
           ELSE /\ resp' = Reply(R(200, "User updated successfully"), 0,
                                  <<User_to_dict(user_id, upd, TRUE)>>)
                /\ users' = [users EXCEPT ![user_id] = upd]
        /\ UNCHANGED <<api_keys, session, now, pc, loaded, issued>>

\* update_user without the decorator admin_required
UpdateUser_login_only(c, user_id, data) ==
    LET R(status, body) ==
            Response("update_user", c, <<>>, "-", status, body, {})
        user == users[user_id]
        upd == [user EXCEPT
                  !.is_active = IF data.is_active # {}
                                THEN Value(data.is_active) ELSE @,
                  !.is_admin = IF data.is_admin # {}
                               THEN Value(data.is_admin) ELSE @,
                  !.email = IF data.email # {}
                            THEN Lower(Value(data.email)) ELSE @]
        unique == \A o \in DOMAIN users \ {user_id} :
                      users[o].email # upd.email
    IN  /\ IF ~IsAuthenticated(c)
           THEN /\ resp' = R(302, UNAUTHORIZED)
                /\ UNCHANGED users
           ELSE IF user_id \notin DOMAIN users
           THEN /\ resp' = R(404, "Not found")
                /\ UNCHANGED users
           ELSE IF ~unique
           THEN /\ resp' = R(500, "Internal server error")
                /\ UNCHANGED users
           ELSE /\ resp' = Reply(R(200, "User updated successfully"), 0,
                                  <<User_to_dict(user_id, upd, TRUE)>>)
                /\ users' = [users EXCEPT ![user_id] = upd]
        /\ UNCHANGED <<api_keys, session, now, pc, loaded, issued>>

\* PUT /api/users/<user_id>
UpdateUser(c, user_id, data) ==
    LET R(status, body) ==
            Response("update_user", c, <<>>, "-", status, body, {})
        user == users[user_id]
        upd == [user EXCEPT
                  !.is_active = IF data.is_active # {}
                                THEN Value(data.is_active) ELSE @,
                  !.is_admin = IF data.is_admin # {}
                               THEN Value(data.is_admin) ELSE @,
                  !.email = IF data.email # {}
                            THEN Lower(Value(data.email)) ELSE @]
        unique == \A o \in DOMAIN users \ {user_id} :
                      users[o].email # upd.email
    IN  /\ IF ~IsAuthenticated(c)
           THEN /\ resp' = R(302, UNAUTHORIZED)
                /\ UNCHANGED users
           ELSE IF ~users[session[c]].is_admin
           THEN /\ resp' = R(403, "Admin access required")
                /\ UNCHANGED users
           ELSE IF user_id \notin DOMAIN users
           THEN /\ resp' = R(404, "Not found")
                /\ UNCHANGED users
           ELSE IF ~unique
           THEN /\ resp' = R(500, "Internal server error")
                /\ UNCHANGED users
           ELSE /\ resp' = Reply(R(200, "User updated successfully"), 0,
                                  <<User_to_dict(user_id, upd, TRUE)>>)
                /\ users' = [users EXCEPT ![user_id] = upd]
        /\ UNCHANGED <<api_keys, session, now, pc, loaded, issued>>

----------------------------------------------------------------------------
(* app/models.py: ApiKey, and the key-authenticated route of app/routes/api.py *)

\* verify_key without the check_password_hash of line 135
verify_key_any(key, raw, t) ==
    IF ~key.is_active THEN FALSE
    ELSE IF key.expires_at # NoTime /\ t > key.expires_at THEN FALSE
    ELSE TRUE

\* verify_key without the test of expires_at of lines 132-133
verify_key_ignores_expiry(key, raw, t) ==
    IF ~key.is_active THEN FALSE
    ELSE key.key_hash = key_hash_of(raw)

\* ApiKey.verify_key at time t
verify_key(key, raw, t) ==
    IF ~key.is_active THEN FALSE
    ELSE IF key.expires_at # NoTime /\ t > key.expires_at THEN FALSE
    ELSE key.key_hash = key_hash_of(raw)

\* ApiKey.record_usage at time t
record_usage(key, t) == [key EXCEPT !.last_used = t]

\* a request without the X-API-Key header, and a header value that
\* secrets.token_urlsafe never returned
NoHeader == 0
ForgedKey == MaxKeys + 1
Headers == {NoHeader} \cup RawKeys \cup {ForgedKey}

\* api_key_required without the test of user.is_active of lines 44-48
api_key_required_any_owner(raw) ==
    LET hits == {i \in DOMAIN api_keys :
                    /\ api_keys[i].is_active
                    /\ verify_key(api_keys[i], raw, now)}
        i == Min(hits)
        used == [api_keys EXCEPT ![i] = record_usage(@, now)]
    IN  IF raw = NoHeader
        THEN [user |-> NoUser, status |-> 401, body |-> "API key required",
              api_keys |-> api_keys]
        ELSE IF hits = {}
        THEN [user |-> NoUser, status |-> 401, body |-> "Invalid API key",
              api_keys |-> api_keys]
        ELSE [user |-> api_keys[i].user_id, status |-> 200, body |-> "OK",
              api_keys |-> used]

\* api_key_required with record_usage called on each key the loop comes to,
\* before verify_key (lines 31 and 32 in the other order)
api_key_required_usage_first(raw) ==
    LET hits == {i \in DOMAIN api_keys :
                    /\ api_keys[i].is_active
                    /\ verify_key(api_keys[i], raw, now)}
        i == Min(hits)
        used == [j \in DOMAIN api_keys |->
                    IF api_keys[j].is_active /\ (hits = {} \/ j <= i)
                    THEN record_usage(api_keys[j], now)
                    ELSE api_keys[j]]
    IN  IF raw = NoHeader
        THEN [user |-> NoUser, status |-> 401, body |-> "API key required",
              api_keys |-> api_keys]
        ELSE IF hits = {}
        THEN [user |-> NoUser, status |-> 401, body |-> "Invalid API key",
              api_keys |-> used]
        ELSE IF ~users[api_keys[i].user_id].is_active
        THEN [user |-> NoUser, status |-> 403,
              body |-> "Account deactivated", api_keys |-> used]
        ELSE [user |-> api_keys[i].user_id, status |-> 200, body |-> "OK",
              api_keys |-> used]

\* the decorator api_key_required on a request whose header is `raw`: the
\* user it attaches to the request (NoUser when it answers itself), the
\* status and error it answers with, and the table record_usage leaves
api_key_required(raw) ==
    LET hits == {i \in DOMAIN api_keys :
                    /\ api_keys[i].is_active
                    /\ verify_key(api_keys[i], raw, now)}
        i == Min(hits)
        used == [api_keys EXCEPT ![i] = record_usage(@, now)]
    IN  IF raw = NoHeader
        THEN [user |-> NoUser, status |-> 401, body |-> "API key required",
              api_keys |-> api_keys]
        ELSE IF hits = {}
        THEN [user |-> NoUser, status |-> 401, body |-> "Invalid API key",
              api_keys |-> api_keys]
        ELSE IF ~users[api_keys[i].user_id].is_active
        THEN [user |-> NoUser, status |-> 403,
              body |-> "Account deactivated", api_keys |-> used]
        ELSE [user |-> api_keys[i].user_id, status |-> 200, body |-> "OK",
              api_keys |-> used]

\* GET /api/auth/me
ApiMe(raw) ==
    LET a == api_key_required(raw)
        R == Response("get_current_user", "-", <<>>, "-",
                      a.status, a.body, {})
    IN  /\ resp' = IF a.user = NoUser THEN Reply(R, raw, <<>>)
                   ELSE Reply(R, raw,
                              <<User_to_dict(a.user, users[a.user], TRUE)>>)
        /\ api_keys' = a.api_keys
        /\ UNCHANGED <<users, session, now, pc, loaded, issued>>

----------------------------------------------------------------------------
(* app/routes/api.py: key management of the logged-in user *)

\* GET /api/keys
ListKeys(c) ==
    LET R(status, body) ==
            Response("list_api_keys", c, <<>>, "-", status, body, {})
        Mine(key) == key.user_id = session[c]
        keys == SelectSeq(api_keys, Mine)
    IN  /\ IF ~IsAuthenticated(c)
           THEN resp' = R(302, UNAUTHORIZED)
           ELSE resp' = Reply(R(200, "OK"), 0,
                              [i \in DOMAIN keys |-> ApiKey_to_dict(keys[i])])
        /\ UNCHANGED <<users, api_keys, session, now, pc, loaded, issued>>

\* the JSON body of POST /api/keys: without a name, or with one (the name
\* API login gives its keys)
KeyBodies == {{}, {<<"API Key - ", "Unknown">>}}

\* POST /api/keys, `raw` being the value secrets.token_urlsafe returns; a
\* request that stores a key is served while the table has room for it
CreateKey(c, data, raw) ==
    LET R(status, body, key) ==
            Response("create_api_key", c, <<>>, "-", status, body, key)
        key == NewApiKey(raw, Value(data), session[c])
    IN  /\ IF ~IsAuthenticated(c)
           THEN /\ resp' = R(302, UNAUTHORIZED, {})
                /\ UNCHANGED <<api_keys, issued>>
           ELSE IF data = {}
           THEN /\ resp' = R(400, "Invalid request", {})
                /\ UNCHANGED <<api_keys, issued>>
           ELSE /\ raw \in FreshKeys
                /\ Len(api_keys) < MaxKeys
                /\ resp' = Reply(R(201, "API key created successfully", {raw}),
                                 0, <<ApiKey_to_dict(key)>>)
                /\ api_keys' = Append(api_keys, key)
                /\ issued' = issued \cup {raw}
        /\ UNCHANGED <<users, session, now, pc, loaded>>

\* revoke_api_key whose query filters on the id alone
RevokeKey_of_anyone(c, key_id) ==
    LET R(status, body) ==
            Reply(Response("revoke_api_key", c, <<>>, "-", status, body, {}),
                  key_id, <<>>)
        Found(key) == key.id = key_id
        Others(key) == ~Found(key)
    IN  /\ IF ~IsAuthenticated(c)
           THEN /\ resp' = R(302, UNAUTHORIZED)
                /\ UNCHANGED api_keys
           ELSE IF SelectSeq(api_keys, Found) = <<>>
           THEN /\ resp' = R(404, "Not found")
                /\ UNCHANGED api_keys
           ELSE /\ resp' = R(200, "API key revoked successfully")
                /\ api_keys' = SelectSeq(api_keys, Others)
        /\ UNCHANGED <<users, session, now, pc, loaded, issued>>

\* DELETE /api/keys/<key_id>
RevokeKey(c, key_id) ==
    LET R(status, body) ==
            Reply(Response("revoke_api_key", c, <<>>, "-", status, body, {}),
                  key_id, <<>>)
        Found(key) == key.id = key_id /\ key.user_id = session[c]
        Others(key) == ~Found(key)
    IN  /\ IF ~IsAuthenticated(c)
           THEN /\ resp' = R(302, UNAUTHORIZED)
                /\ UNCHANGED api_keys
           ELSE IF SelectSeq(api_keys, Found) = <<>>
           THEN /\ resp' = R(404, "Not found")
                /\ UNCHANGED api_keys
           ELSE /\ resp' = R(200, "API key revoked successfully")
                /\ api_keys' = SelectSeq(api_keys, Others)
        /\ UNCHANGED <<users, session, now, pc, loaded, issued>>

----------------------------------------------------------------------------
(* app/routes/api.py: user management, behind login_required and
   admin_required *)

\* admin_required without the test of current_user.is_admin of lines 65-69
admin_required_login_only(c) ==
    IF ~IsAuthenticated(c) THEN [status |-> 302, body |-> UNAUTHORIZED]
    ELSE [status |-> 200, body |-> ""]

\* what the two decorators answer with, "" when they let the request through
admin_required(c) ==
    IF ~IsAuthenticated(c) THEN [status |-> 302, body |-> UNAUTHORIZED]
    ELSE IF ~users[session[c]].is_admin
    THEN [status |-> 403, body |-> "Admin access required"]
    ELSE [status |-> 200, body |-> ""]

\* GET /api/users
ListUsers(c) ==
    LET R(status, body) ==
            Response("list_users", c, <<>>, "-", status, body, {})
        g == admin_required(c)
        ids == DOMAIN users
        \* the rows in the order of their ids
        Nth(n) == CHOOSE id \in ids : Cardinality({o \in ids : o <= id}) = n
    IN  /\ IF g.body # ""
           THEN resp' = R(g.status, g.body)
           ELSE resp' = Reply(R(200, "OK"), 0,
                              [n \in 1..Cardinality(ids) |->
                                  User_to_dict(Nth(n), users[Nth(n)], FALSE)])
        /\ UNCHANGED <<users, api_keys, session, now, pc, loaded, issued>>

\* GET /api/users/<user_id>
GetUser(c, user_id) ==
    LET R(status, body, data) ==
            Reply(Response("get_user", c, <<>>, "-", status, body, {}),
                  user_id, data)
        g == admin_required(c)
    IN  /\ IF g.body # ""
           THEN resp' = R(g.status, g.body, <<>>)
           ELSE IF user_id \notin DOMAIN users
           THEN resp' = R(404, "Not found", <<>>)
           ELSE resp' = R(200, "OK",
                          <<User_to_dict(user_id, users[user_id], TRUE)>>)
        /\ UNCHANGED <<users, api_keys, session, now, pc, loaded, issued>>

\* delete_user without the guard of lines 325-329
DeleteUser_unguarded(c, user_id) ==
    LET R(status, body) ==
            Reply(Response("delete_user", c, <<>>, "-", status, body, {}),
                  user_id, <<>>)
        g == admin_required(c)
        Kept(key) == key.user_id # user_id
    IN  /\ IF g.body # ""
           THEN /\ resp' = R(g.status, g.body)
                /\ UNCHANGED <<users, api_keys>>
           ELSE IF user_id \notin DOMAIN users
           THEN /\ resp' = R(404, "Not found")
                /\ UNCHANGED <<users, api_keys>>
           ELSE /\ resp' = R(200, "User deleted successfully")
                /\ users' = [id \in DOMAIN users \ {user_id} |-> users[id]]
                /\ api_keys' = SelectSeq(api_keys, Kept)
        /\ UNCHANGED <<session, now, pc, loaded, issued>>

\* delete_user on a relationship without cascade: the user's keys stay
DeleteUser_keeps_keys(c, user_id) ==
    LET R(status, body) ==
            Reply(Response("delete_user", c, <<>>, "-", status, body, {}),
                  user_id, <<>>)
        g == admin_required(c)
    IN  /\ IF g.body # ""
           THEN /\ resp' = R(g.status, g.body)
                /\ UNCHANGED users
           ELSE IF user_id = session[c]
           THEN /\ resp' = R(400, "Invalid operation")
                /\ UNCHANGED users
           ELSE IF user_id \notin DOMAIN users
           THEN /\ resp' = R(404, "Not found")
                /\ UNCHANGED users
           ELSE /\ resp' = R(200, "User deleted successfully")
                /\ users' = [id \in DOMAIN users \ {user_id} |-> users[id]]
        /\ UNCHANGED <<api_keys, session, now, pc, loaded, issued>>

\* DELETE /api/users/<user_id>; the delete cascades to the user's api_keys
DeleteUser(c, user_id) ==
    LET R(status, body) ==
            Reply(Response("delete_user", c, <<>>, "-", status, body, {}),
                  user_id, <<>>)
        g == admin_required(c)
        Kept(key) == key.user_id # user_id
    IN  /\ IF g.body # ""
           THEN /\ resp' = R(g.status, g.body)
                /\ UNCHANGED <<users, api_keys>>
           ELSE IF user_id = session[c]
           THEN /\ resp' = R(400, "Invalid operation")
                /\ UNCHANGED <<users, api_keys>>
           ELSE IF user_id \notin DOMAIN users
           THEN /\ resp' = R(404, "Not found")
                /\ UNCHANGED <<users, api_keys>>
           ELSE /\ resp' = R(200, "User deleted successfully")
                /\ users' = [id \in DOMAIN users \ {user_id} |-> users[id]]
                /\ api_keys' = SelectSeq(api_keys, Kept)
        /\ UNCHANGED <<session, now, pc, loaded, issued>>

----------------------------------------------------------------------------
(* Requests served one at a time *)

Next ==
    \/ Tick
    \/ \E c \in Clients, name \in LoginNames, password \in Passwords :
           Login(c, name, password)
    \/ \E c \in Clients : Logout(c)
    \/ \E name \in LoginNames, password \in Passwords,
          device \in Devices, raw \in RawKeys :
           ApiLogin(name, password, device, raw)
    \/ \E c \in Clients, user_id \in {ADMIN_ID}, data \in UpdateBodies :
           UpdateUser(c, user_id, data)

----------------------------------------------------------------------------
(* The application started on a database in which the admin has never logged
   in and has just been locked out by five wrong passwords *)

InitLocked ==
    /\ users = [id \in {ADMIN_ID} |->
                   record_failed_login(record_failed_login(
                   record_failed_login(record_failed_login(
                   record_failed_login(
                       NewUser(ADMIN_USERNAME, ADMIN_EMAIL,
                               ADMIN_PASSWORD, TRUE),
                       0), 0), 0), 0), 0)]
    /\ api_keys = <<>>
    /\ session = [c \in Clients |-> NoUser]
    /\ now = 0
    /\ resp = NoResponse
    /\ pc = [p \in Procs |-> "idle"]
    /\ loaded = [p \in Procs |-> NoRequest]
    /\ issued = {}

----------------------------------------------------------------------------
(* Requests served one at a time to users who know their passwords: the
   default admin and one who registers *)

REG_USERNAME == <<"b">>
REG_EMAIL == <<"b", "@">>
REG_EMAILS == {REG_EMAIL, <<"B", "@">>}
REG_PASSWORD == "Str0ng!Passw0rd"

Credentials ==
    {[name |-> ADMIN_USERNAME, password |-> ADMIN_PASSWORD],
     [name |-> REG_USERNAME, password |-> REG_PASSWORD]}

UserIds == 1..(MaxUsers + 1)
KeyIds == 1..(MaxKeys + 1)

\* bodies of PUT /api/users/<id> that set one flag
FlagBodies ==
    [is_active : {{}, {TRUE}, {FALSE}},
     is_admin : {{}, {TRUE}, {FALSE}},
     email : {{}}]

\* API keys: issued by API login and create_api_key, presented to
\* /api/auth/me, listed and revoked, while the admin deactivates,
\* reactivates and deletes users
\* the value secrets.token_urlsafe returns next: which of the values not
\* returned before it is makes no difference to any request, so the least of
\* them stands for all
TokenDrawn ==
    IF FreshKeys = {} THEN {Min(RawKeys)} ELSE {Min(FreshKeys)}

NextKeys ==
    \/ \E c \in Clients :
           Register(c, REG_USERNAME, REG_EMAIL, REG_PASSWORD)
    \/ \E c \in Clients, cr \in Credentials : Login(c, cr.name, cr.password)
    \/ \E c \in Clients : Logout(c)
    \/ \E cr \in Credentials, device \in Devices, raw \in TokenDrawn :
           ApiLogin(cr.name, cr.password, device, raw)
    \/ \E raw \in Headers : ApiMe(raw)
    \/ \E c \in Clients : ListKeys(c)
    \/ \E c \in Clients, data \in KeyBodies, raw \in TokenDrawn :
           CreateKey(c, data, raw)
    \/ \E c \in Clients, key_id \in KeyIds : RevokeKey(c, key_id)
    \/ \E c \in Clients, user_id \in DOMAIN users, data \in UpdateBodies :
           UpdateUser(c, user_id, data)
    \/ \E c \in Clients, user_id \in UserIds : DeleteUser(c, user_id)

\* User management: the routes under /api/users, called by whoever is
\* logged in, admin or not
NextAdmin ==
    \/ Tick
    \/ \E c \in Clients, email \in REG_EMAILS :
           Register(c, REG_USERNAME, email, REG_PASSWORD)
    \/ \E c \in Clients, cr \in Credentials : Login(c, cr.name, cr.password)
    \/ \E c \in Clients : Logout(c)
    \/ \E c \in Clients : ListUsers(c)
    \/ \E c \in Clients, user_id \in UserIds : GetUser(c, user_id)
    \/ \E c \in Clients, user_id \in UserIds, data \in FlagBodies :
           UpdateUser(c, user_id, data)
    \/ \E c \in Clients, user_id \in UserIds : DeleteUser(c, user_id)

----------------------------------------------------------------------------
(* The ApiKey class used directly, as a test of the model or a maintenance
   script uses it: keys are stored with or without an expiry, no route sets
   one, and are verified by verify_key and through /api/auth/me *)

ExpiryTimes == {NoTime} \cup {t \in 0..MaxTime : t % ClockStep = 0}

\* ApiKey(name, user_id, expires_at), set_key(raw), add and commit
StoreKey(raw, user_id, expires_at) ==
    /\ raw \in FreshKeys
    /\ Len(api_keys) < MaxKeys
    /\ api_keys' = Append(api_keys,
                          [NewApiKey(raw, key_name("Unknown"), user_id)
                             EXCEPT !.expires_at = expires_at])
    /\ issued' = issued \cup {raw}
    /\ resp' = Reply(Returned("set_key", NextKeyId, "None"), raw, <<>>)
    /\ UNCHANGED <<users, session, now, pc, loaded>>

\* verify_key(raw) called on the i-th stored key
VerifyKeyCall(i, raw) ==
    /\ resp' = Reply(Returned("verify_key", api_keys[i].id,
                              IF verify_key(api_keys[i], raw, now)
                              THEN "True" ELSE "False"),
                     raw, <<>>)
    /\ UNCHANGED <<users, api_keys, session, now, pc, loaded, issued>>

NextExpiry ==
    \/ Tick
    \/ \E raw \in RawKeys, user_id \in DOMAIN users,
          expires_at \in ExpiryTimes : StoreKey(raw, user_id, expires_at)
    \/ \E i \in DOMAIN api_keys, raw \in RawKeys : VerifyKeyCall(i, raw)
    \/ \E raw \in Headers : ApiMe(raw)

----------------------------------------------------------------------------
(* Keys of the admin, stored with or without an expiry, presented to
   /api/auth/me as time passes and as the admin is deactivated *)

UsageExpiry == {NoTime, ClockStep}

NextUsage ==
    \/ Tick
    \/ \E raw \in TokenDrawn, expires_at \in UsageExpiry :
           StoreKey(raw, ADMIN_ID, expires_at)
    \/ \E c \in Clients : Login(c, ADMIN_USERNAME, ADMIN_PASSWORD)
    \/ \E c \in Clients, data \in UpdateBodies :
           UpdateUser(c, ADMIN_ID, data)
    \/ \E raw \in Headers : ApiMe(raw)

----------------------------------------------------------------------------
(* The lockout methods of User called one at a time on a stored row, in any
   order and at any time, as a test of the model class calls them *)

IsAccountLockedCall(id) ==
    LET r == is_account_locked(users[id], now)
    IN  /\ users' = [users EXCEPT ![id] = r.user]
        /\ resp' = Returned("is_account_locked", id,
                            IF r.ret THEN "True" ELSE "False")
        /\ UNCHANGED <<api_keys, session, now, pc, loaded, issued>>

RecordFailedLoginCall(id) ==
    /\ users[id].failed_login_attempts < MaxFailed
    /\ users' = [users EXCEPT ![id] = record_failed_login(users[id], now)]
    /\ resp' = Returned("record_failed_login", id, "None")
    /\ UNCHANGED <<api_keys, session, now, pc, loaded, issued>>

ResetFailedLoginsCall(id) ==
    /\ users' = [users EXCEPT ![id] = reset_failed_logins(users[id], now)]
    /\ resp' = Returned("reset_failed_logins", id, "None")
    /\ UNCHANGED <<api_keys, session, now, pc, loaded, issued>>

NextPolicy ==
    \/ Tick
    \/ \E id \in DOMAIN users : IsAccountLockedCall(id)
    \/ \E id \in DOMAIN users : RecordFailedLoginCall(id)
    \/ \E id \in DOMAIN users : ResetFailedLoginsCall(id)

----------------------------------------------------------------------------
(* Session logins served by concurrent workers.  Each request has its own
   ORM session: the query loads the row into a User object, the methods of
   User read and write that object, and commit() sends an UPDATE of the
   attributes that were changed and expires the object, which is loaded
   again from the table when it is next read.  Workers interleave at each
   read of the table and each commit. *)

ConcNames == {<<"a">>, <<"n">>}

\* the UPDATE a commit sends for a row loaded as `old` and changed to `new`:
\* the columns whose value was changed are written, the others keep what
\* the table holds
Flush(row, old, new) ==
    [f \in DOMAIN row |-> IF new[f] # old[f] THEN new[f] ELSE row[f]]

Answered(p, status, body) ==
    Response("login", loaded[p].client, loaded[p].name, loaded[p].password,
             status, body, {})

\* lines 48-58: the test of current_user and the query
ConcQuery(p, c, name, password) ==
    /\ pc[p] = "idle"
    /\ IF IsAuthenticated(c)
       THEN /\ resp' = Response("login", c, name, password, 302, REDIRECT, {})
            /\ UNCHANGED <<pc, loaded>>
       ELSE /\ pc' = [pc EXCEPT ![p] = "queried"]
            /\ loaded' = [loaded EXCEPT ![p] =
                    [client |-> c, name |-> name, password |-> password,
                     id |-> FindUser(name),
                     user |-> IF FindUser(name) # NoUser
                              THEN users[FindUser(name)] ELSE <<>>,
                     expired |-> FALSE]]
            /\ UNCHANGED resp
    /\ UNCHANGED <<users, api_keys, session, now, issued>>

\* lines 61-67: is_account_locked on the loaded object, its commit included
ConcCheckLock(p) ==
    LET id == loaded[p].id
        lk == is_account_locked(loaded[p].user, now)
    IN  /\ pc[p] = "queried"
        /\ IF id # NoUser /\ lk.ret
           THEN /\ resp' = Answered(p, 200, MSG_LOCKED)
                /\ pc' = [pc EXCEPT ![p] = "idle"]
                /\ loaded' = [loaded EXCEPT ![p] = NoRequest]
                /\ UNCHANGED users
           ELSE IF id # NoUser /\ lk.user # loaded[p].user
           THEN /\ users' = [users EXCEPT
                               ![id] = Flush(@, loaded[p].user, lk.user)]
                /\ pc' = [pc EXCEPT ![p] = "checked"]
                /\ loaded' = [loaded EXCEPT ![p].expired = TRUE]
                /\ UNCHANGED resp
           ELSE /\ pc' = [pc EXCEPT ![p] = "checked"]
                /\ UNCHANGED <<users, loaded, resp>>
        /\ UNCHANGED <<api_keys, session, now, issued>>

\* lines 70-74 and 86-91: check_password and is_active read the object, which
\* is loaded again if a commit has expired it
ConcCheckPassword(p) ==
    LET id == loaded[p].id
        user == IF loaded[p].expired THEN users[id] ELSE loaded[p].user
    IN  /\ pc[p] = "checked"
        /\ IF id = NoUser
           THEN /\ resp' = Answered(p, 200, MSG_INVALID)
                /\ pc' = [pc EXCEPT ![p] = "idle"]
                /\ loaded' = [loaded EXCEPT ![p] = NoRequest]
           ELSE IF check_password(user, loaded[p].password) /\ ~user.is_active
           THEN /\ resp' = Answered(p, 200, MSG_DEACTIVATED)
                /\ pc' = [pc EXCEPT ![p] = "idle"]
                /\ loaded' = [loaded EXCEPT ![p] = NoRequest]
           ELSE /\ pc' = [pc EXCEPT ![p] =
                            IF check_password(user, loaded[p].password)
                            THEN "matched" ELSE "mismatched"]
                /\ loaded' = [loaded EXCEPT ![p].user = user,
                                            ![p].expired = FALSE]
                /\ UNCHANGED resp
        /\ UNCHANGED <<users, api_keys, session, now, issued>>

\* lines 77-84: reset_failed_logins with its commit, and login_user
ConcSucceed(p) ==
    LET id == loaded[p].id
    IN  /\ pc[p] = "matched"
        /\ users' = [users EXCEPT ![id] =
                        Flush(@, loaded[p].user,
                              reset_failed_logins(loaded[p].user, now))]
        /\ session' = [session EXCEPT ![loaded[p].client] = id]
        /\ resp' = Answered(p, 302, REDIRECT)
        /\ pc' = [pc EXCEPT ![p] = "idle"]
        /\ loaded' = [loaded EXCEPT ![p] = NoRequest]
        /\ UNCHANGED <<api_keys, now, issued>>

\* lines 88-91: record_failed_login with its commit, and the generic flash
ConcRecordFailure(p) ==
    LET id == loaded[p].id
    IN  /\ pc[p] = "mismatched"
        /\ users' = [users EXCEPT ![id] =
                        Flush(@, loaded[p].user,
                              record_failed_login(loaded[p].user, now))]
        /\ resp' = Answered(p, 200, MSG_INVALID)
        /\ pc' = [pc EXCEPT ![p] = "idle"]
        /\ loaded' = [loaded EXCEPT ![p] = NoRequest]
        /\ UNCHANGED <<api_keys, session, now, issued>>

NextConc ==
    \/ Tick
    \/ \E p \in Procs, c \in Clients, name \in ConcNames,
          password \in Passwords : ConcQuery(p, c, name, password)
    \/ \E p \in Procs : ConcCheckLock(p)
    \/ \E p \in Procs : ConcCheckPassword(p)
    \/ \E p \in Procs : ConcSucceed(p)
    \/ \E p \in Procs : ConcRecordFailure(p)

----------------------------------------------------------------------------
(* The operations that write an email, with the application started in an
   environment that may set ADMIN_EMAIL *)

\* os.environ.get('ADMIN_EMAIL', 'admin@example.com'): the default, or an
\* address the operator wrote with a capital
AdminEmails == {ADMIN_EMAIL, <<"A", "@">>}

InitEnv ==
    /\ users \in {[id \in {ADMIN_ID} |->
                      NewUser(ADMIN_USERNAME, email, ADMIN_PASSWORD, TRUE)] :
                  email \in AdminEmails}
    /\ api_keys = <<>>
    /\ session = [c \in Clients |-> NoUser]
    /\ now = 0
    /\ resp = NoResponse
    /\ pc = [p \in Procs |-> "idle"]
    /\ loaded = [p \in Procs |-> NoRequest]
    /\ issued = {}

\* addresses typed into the profile form and sent to update_user
NewEmails == {<<"A", "@">>, <<"B", "@">>, <<"C", "@">>}

\* bodies sent to update_user: a new address, alone or with a change of a flag
EmailBodies ==
    [is_active : {{}, {FALSE}},
     is_admin : {{}, {TRUE}},
     email : {{e} : e \in NewEmails}]

\* a login by username, or by an address in either case, with the password
\* of the user it is meant for
EmailLogins ==
    {[name |-> ADMIN_USERNAME, password |-> ADMIN_PASSWORD],
     [name |-> REG_USERNAME, password |-> REG_PASSWORD]}
    \cup [name : NewEmails \cup {Lower(e) : e \in NewEmails},
          password : {ADMIN_PASSWORD, REG_PASSWORD}]

NextEmail ==
    \/ \E c \in Clients, email \in REG_EMAILS :
           Register(c, REG_USERNAME, email, REG_PASSWORD)
    \/ \E c \in Clients, cr \in EmailLogins :
           Login(c, cr.name, cr.password)
    \/ \E c \in Clients : Logout(c)
    \/ \E c \in Clients, email \in NewEmails : Profile(c, email)
    \/ \E c \in Clients, user_id \in DOMAIN users, data \in EmailBodies :
           UpdateUser(c, user_id, data)

----------------------------------------------------------------------------
(* The lockout of the default admin under every kind of request that names
   or is made by that user: logins with the right and a wrong password,
   requests with an API key, key creation, a password change and admin
   updates, as time passes *)

NEW_PASSWORD == "N3w!Passw0rd"

\* the two passwords in use: each is a wrong one while the other is set
LockPasswords == {ADMIN_PASSWORD, NEW_PASSWORD}

\* a second browser with its own session cookie, whose user does not know the
\* password
LockClients == Clients \cup {"phone"}

\* the login forms submitted: who submits, and which password
LockLogins ==
    (Clients \X LockPasswords) \cup ({"phone"} \X {"wrong"})

InitLock ==
    /\ users = [id \in {ADMIN_ID} |->
                   NewUser(ADMIN_USERNAME, ADMIN_EMAIL, ADMIN_PASSWORD, TRUE)]
    /\ api_keys = <<>>
    /\ session = [c \in LockClients |-> NoUser]
    /\ now = 0
    /\ resp = NoResponse
    /\ pc = [p \in Procs |-> "idle"]
    /\ loaded = [p \in Procs |-> NoRequest]
    /\ issued = {}

NextLock ==
    \/ Tick
    \/ \E form \in LockLogins : Login(form[1], ADMIN_USERNAME, form[2])
    \/ \E c \in Clients : Logout(c)
    \/ \E password \in LockPasswords, device \in Devices, raw \in TokenDrawn :
           ApiLogin(ADMIN_USERNAME, password, device, raw)
    \/ \E raw \in Headers : ApiMe(raw)
    \/ \E c \in Clients, raw \in TokenDrawn :
           CreateKey(c, {key_name("Unknown")}, raw)
    \/ \E c \in Clients : ChangePassword(c, ADMIN_PASSWORD, NEW_PASSWORD)
    \/ \E c \in Clients, data \in UpdateBodies :
           UpdateUser(c, ADMIN_ID, data)

----------------------------------------------------------------------------
(* Everything a user who is not an admin can send: registration, logins,
   profile and password changes, key creation and revocation, and
   update_user with a body that sets the admin flag; the admin sends the
   same requests *)

AdminFlagBodies ==
    [is_active : {{}}, is_admin : {{TRUE}, {FALSE}}, email : {{}}]

PROFILE_EMAIL == <<"C", "@">>

NextSelfService ==
    \/ \E c \in Clients :
           Register(c, REG_USERNAME, REG_EMAIL, REG_PASSWORD)
    \/ \E c \in Clients, cr \in Credentials : Login(c, cr.name, cr.password)
    \/ \E c \in Clients : Logout(c)
    \/ \E cr \in Credentials, device \in Devices, raw \in TokenDrawn :
           ApiLogin(cr.name, cr.password, device, raw)
    \/ \E c \in Clients : Profile(c, PROFILE_EMAIL)
    \/ \E c \in Clients : ChangePassword(c, REG_PASSWORD, NEW_PASSWORD)
    \/ \E c \in Clients, raw \in TokenDrawn :
           CreateKey(c, {key_name("Unknown")}, raw)
    \/ \E c \in Clients, key_id \in KeyIds : RevokeKey(c, key_id)
    \/ \E c \in Clients, user_id \in DOMAIN users, data \in AdminFlagBodies :
           UpdateUser(c, user_id, data)

----------------------------------------------------------------------------
(* Registrations served by concurrent workers: a request validates its form
   against the table, and inserts and commits in a later step, so that
   another request's validation or commit can fall in between *)

RegUsernames == {<<"b">>, <<"c">>}
RegEmails == {<<"b", "@">>, <<"B", "@">>, <<"c", "@">>}

\* lines 14-26: the test of current_user, validate_on_submit and the User
\* object built from the form
RegValidate(p, c, username, email, password) ==
    LET R(status, body) ==
            Response("register", c, username, password, status, body, {})
    IN  /\ pc[p] = "idle"
        /\ IF IsAuthenticated(c)
           THEN /\ resp' = R(302, REDIRECT)
                /\ UNCHANGED <<pc, loaded>>
           ELSE IF ~validate_registration(username, email)
           THEN /\ resp' = R(200, MSG_FORM_ERRORS)
                /\ UNCHANGED <<pc, loaded>>
           ELSE /\ pc' = [pc EXCEPT ![p] = "validated"]
                /\ loaded' = [loaded EXCEPT ![p] =
                       [client |-> c, name |-> username,
                        password |-> password, id |-> NoUser,
                        user |-> NewUser(username, Lower(email), password,
                                         FALSE),
                        expired |-> FALSE]]
                /\ UNCHANGED resp
        /\ UNCHANGED <<users, api_keys, session, now, issued>>

\* lines 28-38: add and commit, and the rollback when the commit fails
RegCommit(p) ==
    LET R(status, body) ==
            Response("register", loaded[p].client, loaded[p].name,
                     loaded[p].password, status, body, {})
        ins == insert_user(loaded[p].user)
    IN  /\ pc[p] = "validated"
        /\ IF ins.ok
           THEN /\ users' = ins.users
                /\ resp' = R(302, MSG_REGISTERED)
           ELSE /\ UNCHANGED users
                /\ resp' = R(200, MSG_REGISTER_ERROR)
        /\ pc' = [pc EXCEPT ![p] = "idle"]
        /\ loaded' = [loaded EXCEPT ![p] = NoRequest]
        /\ UNCHANGED <<api_keys, session, now, issued>>

NextReg ==
    \/ \E p \in Procs, c \in Clients, username \in RegUsernames,
          email \in RegEmails :
           RegValidate(p, c, username, email, REG_PASSWORD)
    \/ \E p \in Procs : RegCommit(p)

----------------------------------------------------------------------------
(* What the claims speak of *)

Known(name) == FindUser(name) # NoUser

WrongPassword(name, password) ==
    /\ Known(name)
    /\ ~check_password(users[FindUser(name)], password)

RightPassword(name, password) ==
    /\ Known(name)
    /\ check_password(users[FindUser(name)], password)

\* the lock of the user a request names is in force at the time of the request
LockInForce(name) ==
    /\ Known(name)
    /\ users[FindUser(name)].account_locked_until # NoTime
    /\ now < users[FindUser(name)].account_locked_until

LockExpired(name) ==
    /\ Known(name)
    /\ users[FindUser(name)].account_locked_until # NoTime
    /\ now >= users[FindUser(name)].account_locked_until

LockoutFieldsUnchanged(id) ==
    /\ users'[id].failed_login_attempts = users[id].failed_login_attempts
    /\ users'[id].last_failed_login = users[id].last_failed_login
    /\ users'[id].account_locked_until = users[id].account_locked_until
    /\ users'[id].last_login = users[id].last_login

\* C1: a wrong-password session login against a user with k < 5 recorded
\* failures and no lock leaves the counter at k + 1; up to 4 the account stays
\* unlocked, and the fifth sets account_locked_until to the time of that
\* failure plus 30 minutes, so that is_account_locked is true at every
\* earlier time.
C1_FifthFailureLocks ==
    [][\A c \in Clients, name \in LoginNames, password \in Passwords :
         (/\ Login(c, name, password)
          /\ ~IsAuthenticated(c)
          /\ WrongPassword(name, password)
          /\ users[FindUser(name)].account_locked_until = NoTime
          /\ users[FindUser(name)].failed_login_attempts < 5)
         => LET k == users[FindUser(name)].failed_login_attempts + 1
                after == users'[FindUser(name)]
            IN  /\ after.failed_login_attempts = k
                /\ k < 5 => /\ after.account_locked_until = NoTime
                            /\ ~is_account_locked(after, now).ret
                /\ k = 5 => /\ after.account_locked_until = now + 30
                            /\ \A t \in 0..(now + 29) :
                                   is_account_locked(after, t).ret
      ]_vars

C1_Witness ==
    /\ resp.op = "login"
    /\ resp.body = MSG_INVALID
    /\ WrongPassword(resp.name, resp.password)
    /\ users[ADMIN_ID].failed_login_attempts = 5
    /\ users[ADMIN_ID].last_failed_login = now
    /\ users[ADMIN_ID].account_locked_until = now + 30

\* C2: a session login naming a user whose lock is in force is answered with
\* the locked message whatever the password, establishes no session and
\* leaves failed_login_attempts, last_failed_login, account_locked_until and
\* last_login as they were.
C2_LockedRejected ==
    [][\A c \in Clients, name \in LoginNames, password \in Passwords :
         (/\ Login(c, name, password)
          /\ LockInForce(name))
         => /\ IsAuthenticated(c) \/ resp'.body = MSG_LOCKED
            /\ session' = session
            /\ LockoutFieldsUnchanged(FindUser(name))
      ]_vars

C2_Witness ==
    /\ resp.op = "login"
    /\ resp.body = MSG_LOCKED
    /\ RightPassword(resp.name, resp.password)
    /\ LockInForce(resp.name)
    /\ session[resp.client] = NoUser

\* C3: a wrong password for an existing, unlocked user at POST /api/auth/login
\* increments failed_login_attempts and sets last_failed_login.
C3_ApiLoginRecordsFailure ==
    [][\A name \in LoginNames, password \in Passwords,
          device \in Devices, raw \in RawKeys :
         (/\ ApiLogin(name, password, device, raw)
          /\ WrongPassword(name, password)
          /\ ~LockInForce(name))
         => /\ users'[FindUser(name)].failed_login_attempts
                  = users[FindUser(name)].failed_login_attempts + 1
            /\ users'[FindUser(name)].last_failed_login = now
      ]_vars

\* C4: POST /api/auth/login naming a user whose lock is in force is answered
\* 403 whatever the password, and creates no ApiKey.
C4_ApiLoginLockedIs403 ==
    [][\A name \in LoginNames, password \in Passwords,
          device \in Devices, raw \in RawKeys :
         (/\ ApiLogin(name, password, device, raw)
          /\ LockInForce(name))
         => /\ resp'.status = 403
            /\ api_keys' = api_keys
      ]_vars

\* what a caller sees of a response
Answer(r) == [status |-> r.status, body |-> r.body, api_key |-> r.api_key]

\* the answer POST /auth/login gives to this request in the current state
LoginAnswer(c, name, password) == Answer(login(c, name, password).resp)

\* the answers POST /api/auth/login gives to this request in the current state
ApiLoginAnswers(name, password) ==
    {Answer(api_login(name, password, device, raw).resp) :
        device \in Devices, raw \in RawKeys}

\* C5 (as amended): in every reachable state where no lock is in force on the
\* account (unlocked, lock expired, deactivated), both login flows answer an
\* attempt naming no user exactly as they answer an attempt naming the
\* account with a wrong password.
C5_NoEnumerationUnlessLocked ==
    \A c \in Clients, name \in LoginNames, ghost \in LoginNames,
       password \in Passwords, any \in Passwords :
        (/\ WrongPassword(name, password)
         /\ ~Known(ghost)
         /\ ~LockInForce(name))
        => /\ LoginAnswer(c, name, password) = LoginAnswer(c, ghost, any)
           /\ ApiLoginAnswers(name, password) = ApiLoginAnswers(ghost, any)

\* C5 (as claimed): the same in every reachable state of the account, the
\* locked one included.
C5_NoEnumeration ==
    \A c \in Clients, name \in LoginNames, ghost \in LoginNames,
       password \in Passwords, any \in Passwords :
        (/\ WrongPassword(name, password)
         /\ ~Known(ghost))
        => /\ LoginAnswer(c, name, password) = LoginAnswer(c, ghost, any)
           /\ ApiLoginAnswers(name, password) = ApiLoginAnswers(ghost, any)

\* a deactivated account whose lock has run out, just after a wrong-password
\* login that was answered like one naming no user
C5_Witness ==
    /\ resp.op = "login"
    /\ resp.body = MSG_INVALID
    /\ WrongPassword(resp.name, resp.password)
    /\ ~users[ADMIN_ID].is_active
    /\ users[ADMIN_ID].failed_login_attempts = 1
    /\ now >= 30
    /\ \E ghost \in LoginNames :
           /\ ~Known(ghost)
           /\ LoginAnswer(resp.client, ghost, resp.password) = Answer(resp)

\* C6 (as amended): in a run of wrong-password session logins against a
\* fresh user each of the first five, the locking fifth included, returns the
\* generic invalid-credentials response; the locked response is returned from
\* the sixth attempt on, while the lock is in force.
C6_FifthAnswerGeneric ==
    [][\A c \in Clients, name \in LoginNames, password \in Passwords :
         (/\ Login(c, name, password)
          /\ ~IsAuthenticated(c)
          /\ WrongPassword(name, password))
         => LET before == users[FindUser(name)]
                after == users'[FindUser(name)]
            IN  /\ (/\ before.account_locked_until = NoTime
                    /\ before.failed_login_attempts < 5)
                   => /\ resp'.body = MSG_INVALID
                      /\ before.failed_login_attempts = 4
                            => now < after.account_locked_until
                /\ (/\ before.failed_login_attempts = 5
                    /\ LockInForce(name))
                   => resp'.body = MSG_LOCKED
      ]_vars

\* C6 (as claimed): the first four return the generic response and the fifth,
\* which locks the account, returns the locked response.
C6_FifthAnswerLocked ==
    [][\A c \in Clients, name \in LoginNames, password \in Passwords :
         (/\ Login(c, name, password)
          /\ ~IsAuthenticated(c)
          /\ WrongPassword(name, password)
          /\ users[FindUser(name)].account_locked_until = NoTime
          /\ users[FindUser(name)].failed_login_attempts < 5)
         => IF users[FindUser(name)].failed_login_attempts < 4
            THEN resp'.body = MSG_INVALID
            ELSE resp'.body = MSG_LOCKED
      ]_vars

\* the locking attempt has just been answered, with the generic message
C6_Witness ==
    /\ resp.op = "login"
    /\ resp.status = 200
    /\ resp.body = MSG_INVALID
    /\ WrongPassword(resp.name, resp.password)
    /\ LockInForce(resp.name)
    /\ users[FindUser(resp.name)].last_failed_login = now

\* C7: when wrong-password logins against one account are served
\* concurrently no increment is lost and the lock engages once: each attempt
\* that records a failure raises the stored failed_login_attempts by one, and
\* account_locked_until is written only by the attempt that brings the
\* stored counter from 4 to 5.
C7_NoLostIncrement ==
    [][\A p \in Procs :
         ConcRecordFailure(p)
         => LET before == users[loaded[p].id]
                after == users'[loaded[p].id]
            IN  /\ after.failed_login_attempts
                      = before.failed_login_attempts + 1
                /\ after.account_locked_until # before.account_locked_until
                      => /\ before.failed_login_attempts = 4
                         /\ after.failed_login_attempts = 5
      ]_vars

\* C8: record_failed_login applied to a user who is already locked
\* (failed_login_attempts >= 5 and now < account_locked_until) does not
\* change account_locked_until.
C8_SixthFailureKeepsLock ==
    [][\A id \in DOMAIN users :
         (/\ RecordFailedLoginCall(id)
          /\ users[id].failed_login_attempts >= 5
          /\ users[id].account_locked_until # NoTime
          /\ now < users[id].account_locked_until)
         => users'[id].account_locked_until = users[id].account_locked_until
      ]_vars

\* C9: is_account_locked at time now returns unlocked and changes nothing
\* when account_locked_until is unset; returns locked and changes nothing
\* when now < account_locked_until; and when now >= account_locked_until
\* returns unlocked, clears account_locked_until and sets
\* failed_login_attempts to 0.
C9_IsAccountLocked ==
    [][\A id \in DOMAIN users :
         IsAccountLockedCall(id)
         => IF users[id].account_locked_until = NoTime
            THEN resp'.body = "False" /\ users' = users
            ELSE IF now < users[id].account_locked_until
            THEN resp'.body = "True" /\ users' = users
            ELSE /\ resp'.body = "False"
                 /\ users'[id].account_locked_until = NoTime
                 /\ users'[id].failed_login_attempts = 0
      ]_vars

\* is_account_locked has just cleared, at the very instant it ran out, a
\* lock set 30 minutes earlier
C9_Witness ==
    /\ resp.op = "is_account_locked"
    /\ resp.body = "False"
    /\ users[resp.status].last_failed_login # NoTime
    /\ now = users[resp.status].last_failed_login + 30
    /\ users[resp.status].account_locked_until = NoTime
    /\ users[resp.status].failed_login_attempts = 0

\* C10: a session login with the right password for an active user, made at
\* or after the user's account_locked_until, establishes a session bound to
\* that user and applies reset_failed_logins: counter 0, last_failed_login
\* and account_locked_until unset, last_login = now.
C10_LoginAfterExpiry ==
    [][\A c \in Clients, name \in LoginNames, password \in Passwords :
         (/\ Login(c, name, password)
          /\ ~IsAuthenticated(c)
          /\ RightPassword(name, password)
          /\ LockExpired(name)
          /\ users[FindUser(name)].is_active)
         => /\ session'[c] = FindUser(name)
            /\ resp'.status = 302
            /\ users'[FindUser(name)].failed_login_attempts = 0
            /\ users'[FindUser(name)].last_failed_login = NoTime
            /\ users'[FindUser(name)].account_locked_until = NoTime
            /\ users'[FindUser(name)].last_login = now
      ]_vars

\* a lock has run out on an active account, and the login with the right
\* password that can be made now ends with the session established
C10_Witness ==
    \E c \in Clients, name \in LoginNames :
        /\ ~IsAuthenticated(c)
        /\ LockExpired(name)
        /\ users[FindUser(name)].is_active
        /\ users[FindUser(name)].failed_login_attempts = 5
        /\ login(c, name, ADMIN_PASSWORD).session[c] = FindUser(name)
        /\ login(c, name, ADMIN_PASSWORD).users[FindUser(name)].last_login = now

\* the lockout fields of user `id` after a step, given that neither
\* record_failed_login nor reset_failed_logins was applied: as before, but for
\* a lock that had run out, which is_account_locked clears with the counter
OnlyLazyUnlock(id) ==
    /\ users'[id].last_failed_login = users[id].last_failed_login
    /\ users'[id].last_login = users[id].last_login
    /\ IF /\ users[id].account_locked_until # NoTime
          /\ now >= users[id].account_locked_until
       THEN /\ users'[id].account_locked_until = NoTime
            /\ users'[id].failed_login_attempts = 0
       ELSE /\ users'[id].account_locked_until
                  = users[id].account_locked_until
            /\ users'[id].failed_login_attempts
                  = users[id].failed_login_attempts

\* C11 (as amended): a login with the right password for a user who is not
\* active and whose lock is not in force is rejected as deactivated by
\* session login and by API login: no session is established, no ApiKey is
\* created, last_failed_login and last_login are unchanged, and
\* failed_login_attempts and account_locked_until are unchanged except that a
\* lock that has run out is cleared and the counter set to 0 with it.
C11_DeactivatedRejected ==
    [][\A c \in Clients, name \in LoginNames, password \in Passwords :
         (/\ RightPassword(name, password)
          /\ ~users[FindUser(name)].is_active
          /\ ~LockInForce(name))
         => /\ Login(c, name, password)
               => /\ IsAuthenticated(c) \/ resp'.body = MSG_DEACTIVATED
                  /\ session' = session
                  /\ IsAuthenticated(c) \/ OnlyLazyUnlock(FindUser(name))
            /\ \A device \in Devices, raw \in RawKeys :
                 ApiLogin(name, password, device, raw)
                 => /\ resp'.status = 403
                    /\ resp'.body = "Account deactivated"
                    /\ api_keys' = api_keys
                    /\ OnlyLazyUnlock(FindUser(name))
      ]_vars

\* C11 (as claimed): the same, with all four lockout fields unchanged.
C11_DeactivatedChangesNothing ==
    [][\A c \in Clients, name \in LoginNames, password \in Passwords :
         (/\ RightPassword(name, password)
          /\ ~users[FindUser(name)].is_active
          /\ ~LockInForce(name))
         => /\ Login(c, name, password)
               => /\ IsAuthenticated(c) \/ resp'.body = MSG_DEACTIVATED
                  /\ session' = session
                  /\ LockoutFieldsUnchanged(FindUser(name))
            /\ \A device \in Devices, raw \in RawKeys :
                 ApiLogin(name, password, device, raw)
                 => /\ resp'.status = 403
                    /\ api_keys' = api_keys
                    /\ LockoutFieldsUnchanged(FindUser(name))
      ]_vars

\* a deactivated user has just been turned away with the right password, the
\* lock that had run out having been cleared on the way
C11_Witness ==
    /\ resp.op = "login"
    /\ resp.body = MSG_DEACTIVATED
    /\ RightPassword(resp.name, resp.password)
    /\ ~users[FindUser(resp.name)].is_active
    /\ ~IsAuthenticated(resp.client)
    /\ users[FindUser(resp.name)].failed_login_attempts = 0
    /\ users[FindUser(resp.name)].account_locked_until = NoTime
    /\ users[FindUser(resp.name)].last_failed_login # NoTime
    /\ now >= users[FindUser(resp.name)].last_failed_login + 30

\* the stored keys that were made from `raw`, and their owners
KeysOf(raw) ==
    {i \in DOMAIN api_keys : api_keys[i].key_hash = key_hash_of(raw)}

OwnersOf(raw) == {api_keys[i].user_id : i \in KeysOf(raw)}

\* C12: a request to /api/auth/me that presents the raw value of a stored key
\* (issued by API login or create_api_key, not revoked, not expired) whose
\* owner U is active is answered 200 with the dictionary of U; whoever owns
\* other keys, no such request is answered with another user's dictionary;
\* and a request that presents a value that was never issued is answered 401
\* with no user.
C12_KeyRoundTrip ==
    [][\A raw \in Headers :
         ApiMe(raw)
         => /\ \A U \in OwnersOf(raw) :
                 /\ OwnersOf(raw) = {U}
                 /\ users[U].is_active
                      => /\ resp'.status = 200
                         /\ resp'.data = <<User_to_dict(U, users[U], TRUE)>>
                 /\ \A n \in DOMAIN resp'.data : resp'.data[n].id = U
            /\ raw \notin issued
                 => /\ resp'.status = 401
                    /\ resp'.data = <<>>
      ]_vars

\* the key of the registered user has just answered for that user while the
\* admin holds a key too
C12_Witness ==
    /\ resp.op = "get_current_user"
    /\ resp.status = 200
    /\ OwnersOf(resp.arg) = {2}
    /\ resp.data[1].username = REG_USERNAME
    /\ \E i \in DOMAIN api_keys : api_keys[i].user_id = ADMIN_ID

\* the raw value a stored key was made from
RawOf(key) == key.key_hash[2]

\* the raw values that were issued and whose key is stored no more
Revoked == {raw \in issued : KeysOf(raw) = {}}

\* C13: DELETE /api/keys/<id> by a logged-in user who does not own the stored
\* key `id` is answered 404 and leaves the table as it was, the key still
\* verifying its raw value; by the owner it is answered 200 and removes the
\* key; and a raw value whose key is gone never has a key again and is
\* answered 401 whenever it is presented.
C13_RevocationOwnerOnlyFinal ==
    [][/\ \A c \in Clients, key_id \in KeyIds :
            (RevokeKey(c, key_id) /\ IsAuthenticated(c))
            => \A i \in DOMAIN api_keys :
                 api_keys[i].id = key_id
                 => IF api_keys[i].user_id # session[c]
                    THEN /\ resp'.status = 404
                         /\ api_keys' = api_keys
                         /\ verify_key(api_keys'[i], RawOf(api_keys[i]), now)
                    ELSE /\ resp'.status = 200
                         /\ RawOf(api_keys[i]) \in Revoked'
       /\ \A raw \in Revoked :
            /\ raw \in Revoked'
            /\ ApiMe(raw) => resp'.status = 401 /\ resp'.data = <<>>
      ]_vars

\* the owner has just revoked a key while another user's key stays stored
C13_Witness ==
    /\ resp.op = "revoke_api_key"
    /\ resp.status = 200
    /\ Revoked # {}
    /\ \E i \in DOMAIN api_keys : api_keys[i].user_id # session[resp.client]

\* the key has an expiry and the clock is past it
Expired(key) == key.expires_at # NoTime /\ now > key.expires_at

\* C14: for a stored key with expires_at set whose active flag is true,
\* verify_key of its raw value at a time after expires_at returns False, and
\* a request that presents the raw value at such a time is answered 401 and
\* leaves the table, last_used included, as it was.
C14_ExpiryAtVerification ==
    [][\A raw \in RawKeys : \A i \in KeysOf(raw) :
         (Expired(api_keys[i]) /\ api_keys[i].is_active)
         => /\ VerifyKeyCall(i, raw) => resp'.body = "False"
            /\ ApiMe(raw) => /\ resp'.status = 401
                             /\ resp'.data = <<>>
                             /\ api_keys' = api_keys
      ]_vars

\* a key that was used before its expiry has just been refused after it
C14_Witness ==
    /\ resp.op = "get_current_user"
    /\ resp.status = 401
    /\ \E i \in KeysOf(resp.arg) :
          /\ Expired(api_keys[i])
          /\ api_keys[i].is_active
          /\ api_keys[i].last_used # NoTime
          /\ api_keys[i].last_used <= api_keys[i].expires_at

\* C15: a request that presents the raw value of a stored key (active, not
\* expired) whose owner has is_active false is answered 403 with no user
\* dictionary, the handler not having run; deactivating and reactivating a
\* user leaves the keys as they are, and a key whose owner is active (again)
\* is answered 200 as that owner.
C15_DeactivatedOwnerRefused ==
    [][/\ resp'.op = "get_current_user"
            => \A raw \in RawKeys : \A U \in OwnersOf(raw) :
                 ApiMe(raw)
                 => IF users[U].is_active
                    THEN /\ resp'.status = 200
                         /\ resp'.data[1].id = U
                    ELSE /\ resp'.status = 403
                         /\ resp'.body = "Account deactivated"
                         /\ resp'.data = <<>>
                         /\ users' = users
       /\ resp'.op = "update_user"
            => \A c \in Clients, user_id \in UserIds, data \in UpdateBodies :
                 UpdateUser(c, user_id, data) => api_keys' = api_keys
      ]_vars

\* the key of a deactivated user has just been refused
C15_Witness ==
    /\ resp.op = "get_current_user"
    /\ resp.status = 403
    /\ \E U \in OwnersOf(resp.arg) : ~users[U].is_active

\* C16: DELETE /api/users/<id> by a logged-in caller whose own id is <id> is
\* rejected with a status of the 400 class, 400 itself when the caller is an
\* admin, and deletes no user and no key; so after every delete request the
\* caller of that request is still a stored user.
C16_NoSelfDeletion ==
    [][\A c \in Clients, user_id \in UserIds :
         (DeleteUser(c, user_id) /\ IsAuthenticated(c))
         => /\ user_id = session[c]
                 => /\ resp'.status \in 400..499
                    /\ users[session[c]].is_admin => resp'.status = 400
                    /\ users' = users
                    /\ api_keys' = api_keys
            /\ session[c] \in DOMAIN users'
      ]_vars

\* an admin has just been refused the deletion of their own account
C16_Witness ==
    /\ resp.op = "delete_user"
    /\ resp.status = 400
    /\ resp.arg = session[resp.client]
    /\ users[resp.arg].is_admin

\* C17: every stored ApiKey refers to a stored user, before and after every
\* step; and the step in which delete_user deletes a user removes every key
\* of that user, so that none of the raw values issued to that user has a
\* key that verifies it.
C17_DeleteCascadesToKeys ==
    [][/\ \A i \in DOMAIN api_keys : api_keys[i].user_id \in DOMAIN users
       /\ \A i \in DOMAIN api_keys' : api_keys'[i].user_id \in DOMAIN users'
       /\ \A c \in Clients, user_id \in UserIds :
            (DeleteUser(c, user_id) /\ resp'.status = 200)
            => /\ user_id \notin DOMAIN users'
               /\ \A i \in DOMAIN api_keys :
                    api_keys[i].user_id = user_id
                    => /\ RawOf(api_keys[i]) \in Revoked'
                       /\ \A j \in DOMAIN api_keys' :
                            ~verify_key(api_keys'[j], RawOf(api_keys[i]), now)
      ]_vars

\* a user has just been deleted whose key is gone with them, while the
\* admin's key stays
C17_Witness ==
    /\ resp.op = "delete_user"
    /\ resp.status = 200
    /\ resp.arg \notin DOMAIN users
    /\ Revoked # {}
    /\ api_keys # <<>>

\* no two rows of `tbl` have the same username or the same email
Unique(tbl) ==
    \A a, b \in DOMAIN tbl :
        a # b => /\ tbl[a].username # tbl[b].username
                 /\ tbl[a].email # tbl[b].email

\* the table holds a row with the username or the email of `row`
Conflicts(row) ==
    \E o \in DOMAIN users : \/ users[o].username = row.username
                            \/ users[o].email = row.email

\* C18: usernames and emails are unique before and after every step of
\* concurrently served registrations; the commit of a registration that
\* passed its pre-check adds exactly its row when no stored row has its
\* username or email, and otherwise (another registration with the same
\* username or email has committed in between) fails and leaves the table
\* as it was.
C18_UniqueUnderRaces ==
    [][/\ Unique(users)
       /\ Unique(users')
       /\ \A p \in Procs :
            RegCommit(p)
            => IF Conflicts(loaded[p].user)
               THEN /\ users' = users
                    /\ resp'.body = MSG_REGISTER_ERROR
               ELSE /\ resp'.body = MSG_REGISTERED
                    /\ \E id \in DOMAIN users' \ DOMAIN users :
                         /\ DOMAIN users' = DOMAIN users \cup {id}
                         /\ users'[id] = loaded[p].user
                    /\ \A o \in DOMAIN users : users'[o] = users[o]
      ]_vars

\* of two registrations of one username that both passed the pre-check, one
\* has stored its row and the other has just failed
C18_Witness ==
    /\ resp.op = "register"
    /\ resp.body = MSG_REGISTER_ERROR
    /\ Cardinality({o \in DOMAIN users : users[o].username = resp.name}) = 1

\* the caller of a request from browser c is logged in and is an admin now
CallerIsAdmin(c) == IsAuthenticated(c) /\ users[session[c]].is_admin

\* C19: a list, get, update or delete request on /api/users whose caller is
\* not, at the time of the request, logged in with is_admin true changes no
\* user and no key and returns no user dictionary; when the caller is logged
\* in (an admin whose flag was removed since the login included) the answer
\* is 403.
C19_AdminOnly ==
    [][\A c \in Clients :
         ~CallerIsAdmin(c)
         => LET Refused == /\ users' = users
                           /\ api_keys' = api_keys
                           /\ resp'.data = <<>>
                           /\ resp'.status # 200
                           /\ IsAuthenticated(c) => resp'.status = 403
            IN  /\ resp'.op = "list_users" => (ListUsers(c) => Refused)
                /\ resp'.op = "get_user"
                     => \A user_id \in UserIds :
                          GetUser(c, user_id) => Refused
                /\ resp'.op = "delete_user"
                     => \A user_id \in UserIds :
                          DeleteUser(c, user_id) => Refused
                /\ resp'.op = "update_user"
                     => \A user_id \in UserIds, data \in FlagBodies :
                          UpdateUser(c, user_id, data) => Refused
      ]_vars

\* the default admin, logged in before the admin flag was removed, has just
\* been refused
C19_Witness ==
    /\ resp.op \in {"list_users", "get_user", "update_user", "delete_user"}
    /\ resp.status = 403
    /\ session[resp.client] = ADMIN_ID
    /\ ADMIN_ID \in DOMAIN users
    /\ ~users[ADMIN_ID].is_admin
    /\ users[ADMIN_ID].last_login # NoTime

\* the fields of the dictionaries that may hold a hash
HashFields == {"key_hash", "password_hash"}

\* C20: a response holds a raw key only when it is the response of the API
\* login or create_api_key request that made that key in the same step from
\* a value not issued before, so no other response ever holds it; a stored
\* key holds the hash of its raw value, not the value; and no response
\* (listing keys, /api/auth/me, a further login, or any other) holds a
\* dictionary with a hash in it.
C20_RawKeyShownOnce ==
    [][/\ resp'.api_key # {}
            => /\ resp'.op \in {"api_login", "create_api_key"}
               /\ \E raw \in RawKeys \ issued :
                    /\ resp'.api_key = {raw}
                    /\ issued' = issued \cup {raw}
                    /\ Len(api_keys') = Len(api_keys) + 1
                    /\ api_keys'[Len(api_keys')].key_hash = key_hash_of(raw)
       /\ issued' # issued => resp'.api_key = issued' \ issued
       /\ \A i \in DOMAIN api_keys' :
            /\ api_keys'[i].key_hash[1] = "pbkdf2"
            /\ RawOf(api_keys'[i]) \in issued'
       /\ \A n \in DOMAIN resp'.data :
            DOMAIN resp'.data[n] \cap HashFields = {}
      ]_vars

\* the keys of the logged-in user, issued earlier, have just been listed
C20_Witness ==
    /\ resp.op = "list_api_keys"
    /\ resp.status = 200
    /\ Len(resp.data) = 2
    /\ resp.api_key = {}
    /\ \A n \in DOMAIN resp.data : "key_hash" \notin DOMAIN resp.data[n]

\* C21: every stored email is its own lowercase form, and a login lookup by
\* the email a user has finds that user.
C21_EmailsLowercase ==
    \A id \in DOMAIN users :
        /\ users[id].email = Lower(users[id].email)
        /\ FindUser(users[id].email) = id

\* the step is a session login that logs user `id` in, or an API login that
\* issues a key to user `id`
SuccessfulLogin(id) ==
    \/ /\ resp'.op = "login"
       /\ \E form \in LockLogins :
            /\ Login(form[1], ADMIN_USERNAME, form[2])
            /\ FindUser(ADMIN_USERNAME) = id
            /\ ~IsAuthenticated(form[1])
            /\ resp'.status = 302
            /\ session'[form[1]] = id
    \/ /\ resp'.op = "api_login"
       /\ \E password \in LockPasswords, device \in Devices,
             raw \in RawKeys :
            /\ ApiLogin(ADMIN_USERNAME, password, device, raw)
            /\ FindUser(ADMIN_USERNAME) = id
            /\ resp'.status = 200

\* the step is a login that calls is_account_locked on user `id` at or after
\* the user's account_locked_until
LockCheckAfterExpiry(id) ==
    /\ users[id].account_locked_until # NoTime
    /\ now >= users[id].account_locked_until
    /\ \/ /\ resp'.op = "login"
          /\ \E form \in LockLogins :
               /\ Login(form[1], ADMIN_USERNAME, form[2])
               /\ FindUser(ADMIN_USERNAME) = id
               /\ ~IsAuthenticated(form[1])
       \/ /\ resp'.op = "api_login"
          /\ \E password \in LockPasswords, device \in Devices,
                raw \in RawKeys :
               /\ ApiLogin(ADMIN_USERNAME, password, device, raw)
               /\ FindUser(ADMIN_USERNAME) = id
               /\ check_password(users[id], password)

\* C22: in every step, failed_login_attempts of a user goes from a value
\* other than 0 to 0 only if the step is a successful login (session or API)
\* of that user or a login that checks the user's lock at or after
\* account_locked_until; a successful login leaves it 0; and in a step of
\* neither kind it stays the same or grows by one.
C22_CounterResets ==
    [][\A id \in DOMAIN users :
         LET k == users[id].failed_login_attempts
             after == users'[id].failed_login_attempts
         IN  /\ (k # 0 /\ after = 0)
                   => SuccessfulLogin(id) \/ LockCheckAfterExpiry(id)
             /\ after \notin {k, k + 1}
                   => SuccessfulLogin(id) \/ LockCheckAfterExpiry(id)
             /\ SuccessfulLogin(id) => after = 0
      ]_vars

\* an API login of the deactivated admin has just checked a lock that had
\* run out, and the counter is 0 with the last failure still on record
C22_Witness ==
    /\ resp.op = "api_login"
    /\ resp.status = 403
    /\ resp.body = "Account deactivated"
    /\ users[ADMIN_ID].failed_login_attempts = 0
    /\ users[ADMIN_ID].last_failed_login # NoTime

\* C23: while the lock of a user is in force (account_locked_until = T and
\* the time is before T), whatever the request, the user's
\* account_locked_until is still T after the step, no browser gets a
\* session of that user, and no login, session or API, of that user succeeds.
C23_LockNotLiftedEarly ==
    [][\A id \in DOMAIN users :
         LET T == users[id].account_locked_until
         IN  (T # NoTime /\ now < T)
                 => /\ id \in DOMAIN users'
                    /\ users'[id].account_locked_until = T
                    /\ \A c \in LockClients :
                           session'[c] = id => session[c] = id
                    /\ ~SuccessfulLogin(id)
                    /\ (resp'.op = "api_login" /\ resp' # resp)
                           => /\ resp'.status # 200
                              /\ api_keys' = api_keys
      ]_vars

\* the admin, locked out by the other browser while logged in, has changed
\* the password, and an API login with the new password has just been refused
\* while the lock is in force
C23_Witness ==
    /\ resp.op = "api_login"
    /\ resp.status = 403
    /\ resp.password = NEW_PASSWORD
    /\ check_password(users[ADMIN_ID], NEW_PASSWORD)
    /\ users[ADMIN_ID].is_active
    /\ users[ADMIN_ID].account_locked_until # NoTime
    /\ now < users[ADMIN_ID].account_locked_until
    /\ now > users[ADMIN_ID].last_failed_login

\* C24: a wrong-password session login naming a user whose lock has run out
\* is answered with the generic invalid-credentials message and leaves
\* failed_login_attempts = 1, last_failed_login = now and account_locked_until
\* unset; from that row the next three recorded failures leave the account
\* unlocked and the fourth locks it again.
C24_FailureAfterExpiry ==
    [][\A c \in Clients, name \in LoginNames, password \in Passwords :
         (/\ resp'.op = "login"
          /\ Login(c, name, password)
          /\ ~IsAuthenticated(c)
          /\ WrongPassword(name, password)
          /\ LockExpired(name))
         => LET after == users'[FindUser(name)]
                f2 == record_failed_login(after, now)
                f3 == record_failed_login(f2, now)
                f4 == record_failed_login(f3, now)
                f5 == record_failed_login(f4, now)
            IN  /\ resp'.body = MSG_INVALID
                /\ session' = session
                /\ after.failed_login_attempts = 1
                /\ after.last_failed_login = now
                /\ after.account_locked_until = NoTime
                /\ \A f \in {f2, f3, f4} :
                       /\ f.account_locked_until = NoTime
                       /\ ~is_account_locked(f, now).ret
                /\ f5.failed_login_attempts = 5
                /\ f5.account_locked_until = now + 30
                /\ is_account_locked(f5, now).ret
      ]_vars

\* the admin, locked at the start and never logged in since, has one failure
\* on record, just made: the lock ran out and a wrong password followed
C24_Witness ==
    /\ resp.op = "login"
    /\ resp.body = MSG_INVALID
    /\ WrongPassword(resp.name, resp.password)
    /\ now >= LOCKOUT_MINUTES
    /\ users[ADMIN_ID].failed_login_attempts = 1
    /\ users[ADMIN_ID].last_failed_login = now
    /\ users[ADMIN_ID].account_locked_until = NoTime
    /\ users[ADMIN_ID].last_login = NoTime

\* the stored keys that a request presenting `raw` at this time can match
Matching(raw) ==
    {i \in KeysOf(raw) : api_keys[i].is_active /\ ~Expired(api_keys[i])}

\* C25 as stated: a request to /api/auth/me that is not answered 200 (no
\* header, unknown key, expired key, deactivated owner) leaves users, keys
\* and sessions as they were, and last_used of a key changes only in a
\* request that presents its raw value and is answered 200.
C25_RejectedChangesNothing ==
    [][/\ \A raw \in Headers :
            (ApiMe(raw) /\ resp'.status # 200)
                => UNCHANGED <<users, api_keys, session>>
       /\ \A i \in DOMAIN api_keys :
            api_keys'[i].last_used # api_keys[i].last_used
                => \E raw \in Headers :
                       /\ ApiMe(raw)
                       /\ i \in KeysOf(raw)
                       /\ resp'.status = 200
      ]_vars

\* C25, amended: a request to /api/auth/me leaves users and sessions as they
\* were; without a header, or with a value that matches no active unexpired
\* key, it is answered 401 and leaves the keys as they were; with a value
\* that matches a key it sets last_used of that key to the time of the
\* request and changes nothing else, and is answered 200 if the owner is
\* active and 403 if not; and last_used of a key changes in no other step.
C25_UsageRecordedOnVerification ==
    [][/\ resp'.op = "get_current_user"
            => \A raw \in Headers :
                 ApiMe(raw)
                   => /\ UNCHANGED <<users, session>>
                      /\ Matching(raw) = {}
                           => /\ resp'.status = 401
                              /\ api_keys' = api_keys
                      /\ Matching(raw) # {}
                           => LET i == Min(Matching(raw))
                                  owner == users[api_keys[i].user_id]
                              IN  /\ api_keys' = [api_keys EXCEPT
                                                     ![i].last_used = now]
                                  /\ resp'.status =
                                         IF owner.is_active THEN 200
                                         ELSE 403
       /\ \A i \in DOMAIN api_keys :
            api_keys'[i].last_used # api_keys[i].last_used
                => \E raw \in Headers : ApiMe(raw) /\ i \in Matching(raw)
      ]_vars

\* a request with the key of the deactivated admin has just been refused, and
\* last_used of the key is the time of the request; another key, expired, has
\* never been used
C25_Witness ==
    /\ resp.op = "get_current_user"
    /\ resp.status = 403
    /\ ~users[ADMIN_ID].is_active
    /\ \E i \in KeysOf(resp.arg) : api_keys[i].last_used = now
    /\ \E i \in DOMAIN api_keys :
           Expired(api_keys[i]) /\ api_keys[i].last_used = NoTime

\* C26: a request to update_user by an admin that sets a user's email to one
\* another user holds, with or without a change of is_active or is_admin in
\* the same body, is answered 500 and leaves every user, key and session as
\* it was.
C26_ConflictRolledBack ==
    [][resp'.op = "update_user"
         => \A c \in Clients, user_id \in DOMAIN users, data \in EmailBodies :
              (/\ CallerIsAdmin(c)
               /\ \E o \in DOMAIN users \ {user_id} :
                      users[o].email = Lower(Value(data.email))
               /\ UpdateUser(c, user_id, data))
              => /\ resp'.status = 500
                 /\ resp'.data = <<>>
                 /\ UNCHANGED <<users, api_keys, session>>
      ]_vars

\* an update has just been answered 500, and two users hold different
\* addresses, the second still active and not an admin
C26_Witness ==
    /\ resp.op = "update_user"
    /\ resp.status = 500
    /\ CallerIsAdmin(resp.client)
    /\ \E id \in DOMAIN users \ {ADMIN_ID} :
           /\ users[id].is_active
           /\ ~users[id].is_admin
           /\ users[id].email # users[ADMIN_ID].email

\* C27: with requests served one at a time, in every reachable state every
\* user has failed_login_attempts <= 5, and account_locked_until is set
\* exactly when failed_login_attempts = 5.
C27_CounterAndLockAgree ==
    \A id \in DOMAIN users :
        /\ users[id].failed_login_attempts <= LOCKOUT_THRESHOLD
        /\ users[id].account_locked_until # NoTime
               <=> users[id].failed_login_attempts = LOCKOUT_THRESHOLD

\* a further wrong password against the locked admin, at a later time than
\* the fifth failure, has just been turned away, and the counter is still 5
C27_Witness ==
    /\ resp.op = "login"
    /\ resp.body = MSG_LOCKED
    /\ WrongPassword(resp.name, resp.password)
    /\ FindUser(resp.name) = ADMIN_ID
    /\ users[ADMIN_ID].failed_login_attempts = LOCKOUT_THRESHOLD
    /\ users[ADMIN_ID].account_locked_until # NoTime
    /\ users[ADMIN_ID].last_failed_login < now
    /\ now < users[ADMIN_ID].account_locked_until

\* C28: in every step, a user who is added is added by a registration, with
\* is_admin false, is_active true and failed_login_attempts 0; and the
\* is_admin flag of a user changes only in a request to update_user for that
\* user whose caller is, before the request, logged in with is_admin true.
\* So no request of a caller who is not an admin sets any admin flag.
C28_AdminFlagOnlyByAdmin ==
    [][/\ \A id \in DOMAIN users' \ DOMAIN users :
            /\ resp'.op = "register"
            /\ ~users'[id].is_admin
            /\ users'[id].is_active
            /\ users'[id].failed_login_attempts = 0
       /\ \A id \in DOMAIN users \cap DOMAIN users' :
            users'[id].is_admin # users[id].is_admin
                => /\ resp'.op = "update_user"
                   /\ CallerIsAdmin(resp'.client)
                   /\ \E data \in AdminFlagBodies :
                          UpdateUser(resp'.client, id, data)
       /\ (\A c \in Clients : ~CallerIsAdmin(c))
            => \A id \in DOMAIN users' :
                   users'[id].is_admin
                       => id \in DOMAIN users /\ users[id].is_admin
      ]_vars

\* the registered user, logged in and not an admin, has just asked
\* update_user and been refused, and is still not an admin
C28_Witness ==
    /\ resp.op = "update_user"
    /\ resp.status = 403
    /\ IsAuthenticated(resp.client)
    /\ session[resp.client] # ADMIN_ID
    /\ ~users[session[resp.client]].is_admin
    /\ users[session[resp.client]].is_active
    /\ users[session[resp.client]].failed_login_attempts = 0

SpecSelfService == Init /\ [][NextSelfService]_vars
SpecUsage == Init /\ [][NextUsage]_vars
SpecRelock == InitLocked /\ [][Next]_vars
SpecEmail == InitEnv /\ [][NextEmail]_vars

SpecLock == InitLock /\ [][NextLock]_vars

SpecReg == Init /\ [][NextReg]_vars

SpecExpiry == Init /\ [][NextExpiry]_vars

SpecKeys == Init /\ [][NextKeys]_vars

SpecAdmin == Init /\ [][NextAdmin]_vars

SpecConc == Init /\ [][NextConc]_vars

SpecPolicy == Init /\ [][NextPolicy]_vars

Spec == Init /\ [][Next]_vars
====
